---- MODULE Spec2Model ----
(***************************************************************************)
(* Model of the benchmark core of cbnsl_benchmark:                         *)
(*   - analysis/GridSearch.py      (GridSearch, GridSearchResult)          *)
(*   - analysis/ParetoSelector.py  (pareto_front, _dominates, best_pareto) *)
(*   - metrics/F1ScoreMetric.py    (count_tp_fp_fn, F1ScoreMetric.compute) *)
(*   - metrics/TPRMetric.py        (TPRMetric.compute)                     *)
(*   - preprocessing/hartemink.py  (hartemink_discretize)                  *)
(*   - pipeline/Dataset.py         (Dataset)                               *)
(* Python dicts are functions with a finite domain, lists are sequences,   *)
(* Optional[x] is <<>> (None) or <<x>>.                                    *)
(***************************************************************************)
EXTENDS Integers, Sequences, FiniteSets, TLC

\* ------------------------------------------------------------------ bounds
\* largest number of keys of a param_grid
MaxKeys == 2
\* largest number of candidate values of one key
MaxVals == 2
\* largest number of combinations of a param_grid
MaxCombos == 4
\* largest length of a results list handed to the Pareto selector
MaxResults == 3
\* number of nodes of the compared graphs
NumNodes == 3
\* largest number of links (arcs and edges) of a compared graph
MaxLinks == 2
\* number of rows of a table handed to the discretizer
NumRows == 3
\* largest n_bins asked of the discretizer
MaxBins == 2
\* largest number of columns of the data matrix of a Dataset
MaxFeatures == 2

\* ------------------------------------------------------------ input domains
\* scores a metric may return
ScoreValues == {0, 1}
\* messages str(e) of the exceptions the learner or a metric may raise
ErrMsgs == {"", "boom"}
\* names of the parameters, in the key order of the grid
KeyPool == <<"alpha", "max_conditioning_set_size", "n_bins", "threshold">>
\* metric names that callers query
QueryNames == {"SHD", "F1-Score"}
\* values of the cells of a table handed to the discretizer
CellValues == {0, 1, 3}
\* integer bin labels passed to _mutual_information
Labels == {0, 1, 2}
\* numbers of columns of such a table
ColumnCounts == {0, 1, 2}
\* initial_method arguments
Methods == {"quantile", "uniform", "kmeans"}
\* numbers of rows of the data matrix of a Dataset
SampleCounts == {0, 5}
\* feature names a caller gives
NamePool == {"PKA", "PKC"}
\* structures a caller attaches
Structures == {"golden", "other"}

None == <<>>
Some(x) == <<x>>

EmptyDict == [k \in {} |-> 0]

\* the j-th candidate value of the i-th key
ValueOf(i, j) == 10 * i + j

\* ---------------------------------------------------------------- variables
VARIABLES
    \* GridSearch fields
    algorithm_class, param_grid, dataset, golden_structure, metrics,
    fixed_params, objectives, results, is_fitted,
    \* locals of GridSearch.run()
    pc, combinations, i, scores, mi,
    \* the exception caught in the current trial, if any (e of line 124)
    caught,
    \* argument and outcome of the last call on the GridSearch
    ret,
    \* arguments and outcome of the last call of the Pareto selector
    pf_results, pf_objectives, pf_out,
    \* arguments and outcome of the last call of count_tp_fp_fn
    ref_cpdag, test_cpdag, ct_out,
    \* outcome of the last compute() of a metric on these two graphs
    metric_out,
    \* arguments of hartemink_discretize
    df, n_bins, initial_bins, initial_method,
    \* locals of hartemink_discretize and its outcome
    hpc, bin_labels, n_bins_per_var, var_j, h_out,
    \* the number of merges applied so far (executions of lines 133-135)
    merges,
    \* bin_labels as the initial discretization left it (after line 99)
    initial_bin_labels,
    \* Dataset fields (data is kept as its shape), and the last call on it
    ds_data, ds_golden_structure, ds_name, ds_feature_names, ds_call,
    \* arguments and outcome of the last call of _mutual_information
    mi_x, mi_y, mi_out

gsInputs == <<algorithm_class, param_grid, dataset, golden_structure, metrics,
              fixed_params, objectives>>
gsVars == <<algorithm_class, param_grid, dataset, golden_structure, metrics,
            fixed_params, objectives, results, is_fitted,
            pc, combinations, i, scores, mi, caught, ret>>

pfVars == <<pf_results, pf_objectives, pf_out>>
ctVars == <<ref_cpdag, test_cpdag, ct_out, metric_out>>

hkArgs == <<df, n_bins, initial_bins, initial_method>>
hkVars == <<df, n_bins, initial_bins, initial_method,
            hpc, bin_labels, n_bins_per_var, var_j, h_out, merges,
            initial_bin_labels>>

dsVars == <<ds_data, ds_golden_structure, ds_name, ds_feature_names, ds_call>>

miVars == <<mi_x, mi_y, mi_out>>

vars == <<gsVars, pfVars, ctVars, hkVars, dsVars, miVars>>

\* the variables of the other components
gsFrame == <<pfVars, ctVars, hkVars, dsVars, miVars>>
pfFrame == <<gsVars, ctVars, hkVars, dsVars, miVars>>
ctFrame == <<gsVars, pfVars, hkVars, dsVars, miVars>>
hkFrame == <<gsVars, pfVars, ctVars, dsVars, miVars>>
dsFrame == <<gsVars, pfVars, ctVars, hkVars, miVars>>
miFrame == <<gsVars, pfVars, ctVars, hkVars, dsVars>>

\* ------------------------------------------------------------ GridSearchResult
GridSearchResult(params, sc, err) == [params |-> params, scores |-> sc, error |-> err]

\* ------------------------------------------------------------------ helpers
RECURSIVE SeqProd(_)
SeqProd(ns) == IF ns = <<>> THEN 1 ELSE Head(ns) * SeqProd(Tail(ns))

\* mutant: the pool is the outer loop, so that the first key varies fastest
RECURSIVE ExtendAll_PoolMajor(_, _)
ExtendAll_PoolMajor(result, pool) ==
    IF pool = <<>> THEN <<>>
    ELSE [k \in 1..Len(result) |-> Append(result[k], Head(pool))]
         \o ExtendAll_PoolMajor(result, Tail(pool))

\* [x + [y] for x in result for y in pool]
RECURSIVE ExtendAll(_, _)
ExtendAll(result, pool) ==
    IF result = <<>> THEN <<>>
    ELSE [k \in 1..Len(pool) |-> Append(Head(result), pool[k])]
         \o ExtendAll(Tail(result), pool)

\* itertools.product(*pools)
RECURSIVE ProductFrom(_, _)
ProductFrom(result, pools) ==
    IF pools = <<>> THEN result
    ELSE ProductFrom(ExtendAll(result, Head(pools)), Tail(pools))

Product(pools) == ProductFrom(<< <<>> >>, pools)

\* list(param_grid.keys()), list(param_grid.values())
ParamNames(grid) == [k \in 1..Len(grid) |-> grid[k].name]
ParamValues(grid) == [k \in 1..Len(grid) |-> grid[k].values]

\* dict(zip(param_names, combo))
ZipDict(names, combo) ==
    [n \in {names[k] : k \in 1..Len(names)} |->
        combo[CHOOSE k \in 1..Len(names) : names[k] = n]]

\* mutant: an element that equals the best key replaces the one kept so far
RECURSIVE PyBest_LastWins(_, _, _, _)
PyBest_LastWins(seq, key, lower, best) ==
    IF seq = <<>> THEN best
    ELSE LET x == Head(seq)
             better == IF lower THEN x.scores[key] <= best.scores[key]
                                ELSE x.scores[key] >= best.scores[key]
         IN PyBest_LastWins(Tail(seq), key, lower, IF better THEN x ELSE best)

\* min(seq, key=...) / max(seq, key=...): the first element with the best key
RECURSIVE PyBest(_, _, _, _)
PyBest(seq, key, lower, best) ==
    IF seq = <<>> THEN best
    ELSE LET x == Head(seq)
             better == IF lower THEN x.scores[key] < best.scores[key]
                                ELSE x.scores[key] > best.scores[key]
         IN PyBest(Tail(seq), key, lower, IF better THEN x ELSE best)

PyMin(seq, key) == PyBest(Tail(seq), key, TRUE, Head(seq))
PyMax(seq, key) == PyBest(Tail(seq), key, FALSE, Head(seq))

\* dict.get(key, default)
DictGet(d, key, default) == IF key \in DOMAIN d THEN d[key] ELSE default

\* outcomes of a call
Return(op, v) == [op |-> op, kind |-> "return", val |-> v]
Raise(op, e) == [op |-> op, kind |-> "raise", val |-> e]
\* a call on the GridSearch: its metric_name argument, if any, and its outcome
Call(arg, outcome) == [arg |-> arg, out |-> outcome]
NotRunError == "GridSearch has not been run yet. Call run() first."

\* ------------------------------------------------------------------- inputs
\* a grid with the given numbers of candidate values per key
GridOfShape(shape) ==
    [k \in 1..Len(shape) |->
        [name |-> KeyPool[k],
         values |-> [j \in 1..shape[k] |-> ValueOf(k, j)]]]

Shapes ==
    { s \in UNION { [1..n -> 0..MaxVals] : n \in 0..MaxKeys } :
        SeqProd(s) <= MaxCombos }

MetricLists == { <<"SHD">>, <<"SHD", "F1-Score">> }

\* the objectives argument: None, or a dict metric name -> lower is better
ObjectiveArgs ==
    { None,
      Some(EmptyDict),
      Some("SHD" :> FALSE),
      Some(("SHD" :> TRUE) @@ ("F1-Score" :> FALSE)) }

\* ----------------------------------------------------------------- __init__
GSInit ==
    /\ algorithm_class = "CPCAdapter"
    /\ param_grid \in { GridOfShape(s) : s \in Shapes }
    /\ dataset = "dataset"
    /\ golden_structure = "golden"
    /\ metrics \in MetricLists
    /\ fixed_params = ("version" :> 1)
    /\ \E arg \in ObjectiveArgs :
         objectives = IF arg = None \/ DOMAIN arg[1] = {}
                      THEN [m \in {metrics[k] : k \in 1..Len(metrics)} |-> TRUE]
                      ELSE arg[1]
    /\ results = <<>>
    /\ is_fitted = FALSE
    /\ pc = "idle"
    /\ combinations = <<>>
    /\ i = 0
    /\ scores = EmptyDict
    /\ mi = 0
    /\ caught = None
    /\ ret = Call(None, Return("__init__", None))

\* --------------------------------------------------------- GridSearch.run()
\* the call is in progress: nothing has been returned yet
Running == Call(None, [op |-> "run", kind |-> "running", val |-> None])

\* params of the combination being tried (line 105)
CurrentParams == ZipDict(ParamNames(param_grid), combinations[i])

\* line 128: self.results.append(result), then the next combination
AppendResult(result) ==
    /\ results' = Append(results, result)
    /\ i' = i + 1
    /\ pc' = "trial"
    /\ scores' = EmptyDict
    /\ mi' = 0
    /\ UNCHANGED <<gsFrame, gsInputs, is_fitted, combinations, ret>>

\* an exception raised at a site of the try block, with the metrics computed so far
Exception(site, msg) == [site |-> site, msg |-> msg, computed |-> DOMAIN scores]

\* mutant: the exception is not caught and ends run()
HandleException_Propagates(e) ==
    /\ caught' = Some(e)
    /\ pc' = "idle"
    /\ ret' = Call(None, Raise("run", e.msg))
    /\ scores' = EmptyDict
    /\ mi' = 0
    /\ UNCHANGED <<gsFrame, gsInputs, results, is_fitted, combinations, i>>

\* mutant: the failed trial is recorded with the scores computed before the failure
HandleException_KeepsScores(e) ==
    /\ caught' = Some(e)
    /\ AppendResult(GridSearchResult(CurrentParams, scores, Some(e.msg)))

\* lines 124-128: except Exception as e: the trial is recorded as failed
HandleException(e) ==
    /\ caught' = Some(e)
    /\ AppendResult(GridSearchResult(CurrentParams, EmptyDict, Some(e.msg)))

\* lines 121-123, 128: the trial is recorded with its scores
RecordScores(sc) ==
    /\ caught' = None
    /\ AppendResult(GridSearchResult(CurrentParams, sc, None))

\* mutant: the results of the previous run are kept and appended to
RunBegin_KeepsResults ==
    /\ pc = "idle"
    /\ combinations' = Product(ParamValues(param_grid))
    /\ i' = 1
    /\ pc' = "trial"
    /\ ret' = Running
    /\ caught' = None
    /\ UNCHANGED <<gsFrame, gsInputs, results, is_fitted, scores, mi>>

\* lines 86-102: the combinations are enumerated and the results are reset
RunBegin ==
    /\ pc = "idle"
    /\ combinations' = Product(ParamValues(param_grid))
    /\ results' = <<>>
    /\ i' = 1
    /\ pc' = "trial"
    /\ ret' = Running
    /\ caught' = None
    /\ UNCHANGED <<gsFrame, gsInputs, is_fitted, scores, mi>>

\* mutant: the combination is merged into fixed_params itself
ConstructOk_UpdatesFixedParams ==
    /\ pc = "trial"
    /\ i <= Len(combinations)
    /\ pc' = "learn"
    /\ caught' = None
    /\ fixed_params' = CurrentParams @@ fixed_params
    /\ UNCHANGED <<gsFrame, algorithm_class, param_grid, dataset, golden_structure,
                   metrics, objectives, results, is_fitted, combinations, i, scores,
                   mi, ret>>

\* lines 110-111: the learner is constructed
ConstructOk ==
    /\ pc = "trial"
    /\ i <= Len(combinations)
    /\ pc' = "learn"
    /\ caught' = None
    /\ UNCHANGED <<gsFrame, gsInputs, results, is_fitted, combinations, i, scores, mi, ret>>

ConstructRaises(msg) ==
    /\ pc = "trial"
    /\ i <= Len(combinations)
    /\ HandleException(Exception("construct", msg))

\* lines 112-114: learn_structure returns; scores = {}
\* lines 121-128 when there is no metric to compute
LearnOk ==
    /\ pc = "learn"
    /\ IF Len(metrics) = 0
       THEN RecordScores(EmptyDict)
       ELSE /\ pc' = "metrics"
            /\ scores' = EmptyDict
            /\ mi' = 1
            /\ UNCHANGED <<gsFrame, gsInputs, results, is_fitted, combinations, i,
                           caught, ret>>

LearnRaises(msg) ==
    /\ pc = "learn"
    /\ HandleException(Exception("learn", msg))

\* lines 115-119: one metric is computed; lines 121-128 after the last one
ComputeOk(v) ==
    /\ pc = "metrics"
    /\ LET sc == (metrics[mi] :> v) @@ scores
       IN IF mi = Len(metrics)
          THEN RecordScores(sc)
          ELSE /\ scores' = sc
               /\ mi' = mi + 1
               /\ UNCHANGED <<gsFrame, gsInputs, results, is_fitted, pc, combinations, i,
                              caught, ret>>

\* mutant: a failing metric is skipped and the trial keeps the other scores
ComputeRaises_SkipsMetric(msg) ==
    /\ pc = "metrics"
    /\ IF mi = Len(metrics)
       THEN RecordScores(scores)
       ELSE /\ mi' = mi + 1
            /\ UNCHANGED <<gsFrame, gsInputs, results, is_fitted, pc, combinations, i,
                           scores, caught, ret>>

ComputeRaises(msg) ==
    /\ pc = "metrics"
    /\ HandleException(Exception("compute", msg))

\* lines 130-142: the loop is over
RunEnd ==
    /\ pc = "trial"
    /\ i > Len(combinations)
    /\ is_fitted' = TRUE
    /\ pc' = "idle"
    /\ ret' = Call(None, Return("run", Some("self")))
    /\ UNCHANGED <<gsFrame, gsInputs, results, combinations, i, scores, mi, caught>>

\* ------------------------------------------------------------------ queries
HasMetric(r, metric_name) == metric_name \in DOMAIN r.scores

\* mutant: the direction of the metric is read the wrong way round
best_result_Inverted(metric_name) ==
    IF ~is_fitted THEN Raise("best_result", NotRunError)
    ELSE LET valid_results == SelectSeq(results, LAMBDA r : HasMetric(r, metric_name))
             lower_is_better == DictGet(objectives, metric_name, TRUE)
         IN IF valid_results = <<>> THEN Return("best_result", None)
            ELSE IF lower_is_better
                 THEN Return("best_result", Some(PyMax(valid_results, metric_name)))
                 ELSE Return("best_result", Some(PyMin(valid_results, metric_name)))

\* mutant: a metric without a direction counts as higher is better
best_result_DefaultHigher(metric_name) ==
    IF ~is_fitted THEN Raise("best_result", NotRunError)
    ELSE LET valid_results == SelectSeq(results, LAMBDA r : HasMetric(r, metric_name))
             lower_is_better == DictGet(objectives, metric_name, FALSE)
         IN IF valid_results = <<>> THEN Return("best_result", None)
            ELSE IF lower_is_better
                 THEN Return("best_result", Some(PyMin(valid_results, metric_name)))
                 ELSE Return("best_result", Some(PyMax(valid_results, metric_name)))

\* lines 156-167
best_result(metric_name) ==
    IF ~is_fitted THEN Raise("best_result", NotRunError)
    ELSE LET valid_results == SelectSeq(results, LAMBDA r : HasMetric(r, metric_name))
             lower_is_better == DictGet(objectives, metric_name, TRUE)
         IN IF valid_results = <<>> THEN Return("best_result", None)
            ELSE IF lower_is_better
                 THEN Return("best_result", Some(PyMin(valid_results, metric_name)))
                 ELSE Return("best_result", Some(PyMax(valid_results, metric_name)))

\* lines 171-172
best_params(metric_name) ==
    LET best == best_result(metric_name)
    IN IF best.kind = "raise" THEN Raise("best_params", best.val)
       ELSE IF best.val # None THEN Return("best_params", Some(best.val[1].params))
            ELSE Return("best_params", None)

\* lines 176-177
best_score(metric_name) ==
    LET best == best_result(metric_name)
    IN IF best.kind = "raise" THEN Raise("best_score", best.val)
       ELSE IF best.val # None
            THEN Return("best_score", Some(best.val[1].scores[metric_name]))
            ELSE Return("best_score", None)

\* lines 192-198: one dict per result: the params, the scores, then the error
RowOf(result) ==
    [c \in DOMAIN result.params \cup DOMAIN result.scores \cup {"error"} |->
        IF c = "error" THEN result.error
        ELSE IF c \in DOMAIN result.scores THEN Some(result.scores[c])
        ELSE Some(result.params[c])]

\* the keys of a row, in insertion order
RowKeys(result) ==
    SelectSeq(ParamNames(param_grid), LAMBDA c : c \in DOMAIN result.params)
    \o SelectSeq(metrics, LAMBDA c : c \in DOMAIN result.scores)
    \o <<"error">>

\* the columns of pd.DataFrame(rows): the keys in order of first appearance
RECURSIVE ColumnsOf(_, _)
ColumnsOf(rs, cols) ==
    IF rs = <<>> THEN cols
    ELSE LET seen == {cols[k] : k \in 1..Len(cols)}
         IN ColumnsOf(Tail(rs),
                      cols \o SelectSeq(RowKeys(Head(rs)), LAMBDA c : c \notin seen))

\* line 200: pd.DataFrame(rows); a key a row lacks is NaN
DataFrame(rs) ==
    LET columns == ColumnsOf(rs, <<>>)
    IN [columns |-> columns,
        rows |-> [k \in 1..Len(rs) |->
                    [c \in {columns[n] : n \in 1..Len(columns)} |->
                        IF c \in DOMAIN RowOf(rs[k]) THEN RowOf(rs[k])[c]
                        ELSE Some("NaN")]]]

\* mutant: the fitted flag is not checked
get_results_dataframe_Unchecked ==
    Return("get_results_dataframe", Some(DataFrame(results)))

\* lines 189-200
get_results_dataframe ==
    IF ~is_fitted THEN Raise("get_results_dataframe", NotRunError)
    ELSE Return("get_results_dataframe", Some(DataFrame(results)))

\* a query returns or raises; it changes no field
Query(arg, outcome) ==
    /\ pc = "idle"
    /\ ret' = Call(arg, outcome)
    /\ UNCHANGED <<gsFrame, gsInputs, results, is_fitted, pc, combinations, i, scores, mi,
                   caught>>

BestResult(metric_name) == Query(Some(metric_name), best_result(metric_name))
BestParams(metric_name) == Query(Some(metric_name), best_params(metric_name))
BestScore(metric_name) == Query(Some(metric_name), best_score(metric_name))
GetResultsDataframe == Query(None, get_results_dataframe)

\* -------------------------------------------------------------- GridSearch
GSNext ==
    \/ RunBegin
    \/ ConstructOk
    \/ \E msg \in ErrMsgs : ConstructRaises(msg)
    \/ LearnOk
    \/ \E msg \in ErrMsgs : LearnRaises(msg)
    \/ \E v \in ScoreValues : ComputeOk(v)
    \/ \E msg \in ErrMsgs : ComputeRaises(msg)
    \/ RunEnd
    \/ \E m \in QueryNames : BestResult(m)
    \/ \E m \in QueryNames : BestParams(m)
    \/ \E m \in QueryNames : BestScore(m)
    \/ GetResultsDataframe

\* the GridSearch is not involved
GSIdle ==
    /\ algorithm_class = "CPCAdapter"
    /\ param_grid = <<>>
    /\ dataset = "dataset"
    /\ golden_structure = "golden"
    /\ metrics = <<"SHD">>
    /\ fixed_params = EmptyDict
    /\ objectives = ("SHD" :> TRUE)
    /\ results = <<>>
    /\ is_fitted = FALSE
    /\ pc = "idle"
    /\ combinations = <<>>
    /\ i = 0
    /\ scores = EmptyDict
    /\ mi = 0
    /\ caught = None
    /\ ret = Call(None, Return("__init__", None))

\* ----------------------------------------------------------- ParetoSelector
\* all(m in r.scores for m in objectives)
HasAllObjectives(r, objs) ==
    \A k \in 1..Len(objs) : objs[k].name \in DOMAIN r.scores

\* lines 60-77: the loop over objectives.items(), left by break
RECURSIVE DominatesLoop(_, _, _, _, _)
DominatesLoop(a, b, items, at_least_as_good, strictly_better) ==
    IF items = <<>> THEN at_least_as_good /\ strictly_better
    ELSE LET a_val == a.scores[Head(items).name]
             b_val == b.scores[Head(items).name]
         IN IF Head(items).lower
            THEN IF a_val > b_val THEN FALSE /\ strictly_better
                 ELSE DominatesLoop(a, b, Tail(items), at_least_as_good,
                                    strictly_better \/ a_val < b_val)
            ELSE IF a_val < b_val THEN FALSE /\ strictly_better
                 ELSE DominatesLoop(a, b, Tail(items), at_least_as_good,
                                    strictly_better \/ a_val > b_val)

\* mutant: "strictly better on at least one objective" is not required
dominates_Weak(a, b, objs) == DominatesLoop(a, b, objs, TRUE, TRUE)

\* mutant: being strictly better on one objective is enough to dominate
dominates_AnyBetter(a, b, objs) ==
    \E k \in 1..Len(objs) :
        IF objs[k].lower
        THEN a.scores[objs[k].name] < b.scores[objs[k].name]
        ELSE a.scores[objs[k].name] > b.scores[objs[k].name]

\* lines 47-77
_dominates(a, b, objs) == DominatesLoop(a, b, objs, TRUE, FALSE)

\* mutant: a candidate is compared with the earlier candidates only
RECURSIVE FrontFrom_EarlierOnly(_, _, _, _)
FrontFrom_EarlierOnly(valid, c, objs, front) ==
    IF c > Len(valid) THEN front
    ELSE LET dominated == \E o \in 1..(c - 1) :
                              _dominates(valid[o], valid[c], objs)
         IN FrontFrom_EarlierOnly(valid, c + 1, objs,
                      IF dominated THEN front ELSE Append(front, valid[c]))

\* lines 33-42: the candidates are taken in order; "other is candidate" is
\* the comparison of two positions of the list
RECURSIVE FrontFrom(_, _, _, _)
FrontFrom(valid, c, objs, front) ==
    IF c > Len(valid) THEN front
    ELSE LET dominated == \E o \in 1..Len(valid) :
                              o # c /\ _dominates(valid[o], valid[c], objs)
         IN FrontFrom(valid, c + 1, objs,
                      IF dominated THEN front ELSE Append(front, valid[c]))

\* mutant: one result that lacks an objective empties the front
pareto_front_AllOrNothing(rs, objs) ==
    IF \E k \in 1..Len(rs) : ~HasAllObjectives(rs[k], objs) THEN <<>>
    ELSE IF rs = <<>> THEN <<>> ELSE FrontFrom(rs, 1, objs, <<>>)

\* lines 28-44
pareto_front(rs, objs) ==
    LET valid == SelectSeq(rs, LAMBDA r : HasAllObjectives(r, objs))
    IN IF valid = <<>> THEN <<>> ELSE FrontFrom(valid, 1, objs, <<>>)

\* lines 101-108: min/max evaluate r.scores[rank_by] of every front member
best_pareto(rs, objs, rank_by, rank_lower_is_better) ==
    LET front == pareto_front(rs, objs)
    IN IF front = <<>> THEN Return("best_pareto", None)
       ELSE IF \E k \in 1..Len(front) : rank_by \notin DOMAIN front[k].scores
            THEN Raise("best_pareto", "KeyError")
            ELSE IF rank_lower_is_better
                 THEN Return("best_pareto", Some(PyMin(front, rank_by)))
                 ELSE Return("best_pareto", Some(PyMax(front, rank_by)))

\* inputs: the scores of a result are any partial map of the metric names
ScoreDicts ==
    UNION { [S -> ScoreValues] : S \in SUBSET QueryNames }

ResultLists ==
    UNION { { [k \in 1..n |->
                 GridSearchResult("alpha" :> k, sc[k],
                                  IF DOMAIN sc[k] = {} THEN Some("boom") ELSE None)]
              : sc \in [1..n -> ScoreDicts] }
            : n \in 0..MaxResults }

\* objectives: an ordered dict metric name -> lower is better
ObjectiveDicts ==
    { o \in UNION { [1..n -> [name : QueryNames, lower : BOOLEAN]] : n \in 0..2 } :
        \A j, k \in 1..Len(o) : j # k => o[j].name # o[k].name }

PFCall(op, rank_by, lower, outcome) ==
    [op |-> op, rank_by |-> rank_by, lower |-> lower, outcome |-> outcome]

PFInit ==
    /\ pf_results \in ResultLists
    /\ pf_objectives \in ObjectiveDicts
    /\ pf_out = PFCall("none", None, None, Return("none", None))

PFIdle ==
    /\ pf_results = <<>>
    /\ pf_objectives = <<>>
    /\ pf_out = PFCall("none", None, None, Return("none", None))

ParetoFront ==
    /\ pf_out' = PFCall("pareto_front", None, None,
                        Return("pareto_front", pareto_front(pf_results, pf_objectives)))
    /\ UNCHANGED <<pfFrame, pf_results, pf_objectives>>

BestPareto(rank_by, rank_lower_is_better) ==
    /\ pf_out' = PFCall("best_pareto", Some(rank_by), Some(rank_lower_is_better),
                        best_pareto(pf_results, pf_objectives, rank_by,
                                    rank_lower_is_better))
    /\ UNCHANGED <<pfFrame, pf_results, pf_objectives>>

PFNext ==
    \/ ParetoFront
    \/ \E rank_by \in QueryNames, lower \in BOOLEAN : BestPareto(rank_by, lower)

\* ----------------------------------------------------------- count_tp_fp_fn
Nodes == 0..(NumNodes - 1)

\* MixedGraph.existsArc / existsEdge
existsArc(g, tail, head) == <<tail, head>> \in g.arcs
existsEdge(g, first, second) == {first, second} \in g.edges

\* an edge as the pair edges() yields
EdgePair(e) ==
    LET first == CHOOSE n \in e : \A m \in e : n <= m
        second == CHOOSE n \in e : \A m \in e : m <= n
    IN <<first, second>>

\* mutant: an arc found with the opposite orientation is a true positive
Totals_IgnoresOrientation(c) ==
    [tp |-> c.true_arc + c.true_edge + c.misoriented_arc,
     fp |-> c.wrong_edge_arc + c.wrong_arc_edge
            + c.wrong_arc_none + c.wrong_edge_none,
     fn |-> c.wrong_none_arc + c.wrong_none_edge]

\* mutant: a misorientation or a type mismatch is also a false negative
Totals_DoublePenalty(c) ==
    [tp |-> c.true_arc + c.true_edge,
     fp |-> c.misoriented_arc + c.wrong_edge_arc + c.wrong_arc_edge
            + c.wrong_arc_none + c.wrong_edge_none,
     fn |-> c.wrong_none_arc + c.wrong_none_edge
            + c.misoriented_arc + c.wrong_edge_arc + c.wrong_arc_edge]

\* mutant: a reference edge that the test graph shows as an arc is not counted
Totals_DropsArcForEdge(c) ==
    [tp |-> c.true_arc + c.true_edge,
     fp |-> c.misoriented_arc + c.wrong_edge_arc
            + c.wrong_arc_none + c.wrong_edge_none,
     fn |-> c.wrong_none_arc + c.wrong_none_edge]

\* lines 86-91: the ten categories are added up
Totals(c) ==
    [tp |-> c.true_arc + c.true_edge,
     fp |-> c.misoriented_arc + c.wrong_edge_arc + c.wrong_arc_edge
            + c.wrong_arc_none + c.wrong_edge_none,
     fn |-> c.wrong_none_arc + c.wrong_none_edge]

\* lines 38-91
count_tp_fp_fn(ref, test) ==
    LET \* lines 49-58
        true_arc == Cardinality({a \in ref.arcs : existsArc(test, a[1], a[2])})
        misoriented_arc == Cardinality({a \in ref.arcs :
            /\ ~existsArc(test, a[1], a[2])
            /\ existsArc(test, a[2], a[1])})
        wrong_edge_arc == Cardinality({a \in ref.arcs :
            /\ ~existsArc(test, a[1], a[2])
            /\ ~existsArc(test, a[2], a[1])
            /\ existsEdge(test, a[1], a[2])})
        wrong_none_arc == Cardinality({a \in ref.arcs :
            /\ ~existsArc(test, a[1], a[2])
            /\ ~existsArc(test, a[2], a[1])
            /\ ~existsEdge(test, a[1], a[2])})
        \* lines 61-68
        true_edge == Cardinality({e \in ref.edges :
            existsEdge(test, EdgePair(e)[1], EdgePair(e)[2])})
        wrong_arc_edge == Cardinality({e \in ref.edges :
            /\ ~existsEdge(test, EdgePair(e)[1], EdgePair(e)[2])
            /\ \/ existsArc(test, EdgePair(e)[1], EdgePair(e)[2])
               \/ existsArc(test, EdgePair(e)[2], EdgePair(e)[1])})
        wrong_none_edge == Cardinality({e \in ref.edges :
            /\ ~existsEdge(test, EdgePair(e)[1], EdgePair(e)[2])
            /\ ~existsArc(test, EdgePair(e)[1], EdgePair(e)[2])
            /\ ~existsArc(test, EdgePair(e)[2], EdgePair(e)[1])})
        \* lines 71-76
        wrong_arc_none == Cardinality({a \in test.arcs :
            /\ ~existsArc(ref, a[1], a[2])
            /\ ~existsArc(ref, a[2], a[1])
            /\ ~existsEdge(ref, a[1], a[2])})
        \* lines 79-84
        wrong_edge_none == Cardinality({e \in test.edges :
            /\ ~existsEdge(ref, EdgePair(e)[1], EdgePair(e)[2])
            /\ ~existsArc(ref, EdgePair(e)[1], EdgePair(e)[2])
            /\ ~existsArc(ref, EdgePair(e)[2], EdgePair(e)[1])})
    IN Totals([true_arc |-> true_arc, true_edge |-> true_edge,
               misoriented_arc |-> misoriented_arc,
               wrong_edge_arc |-> wrong_edge_arc, wrong_arc_edge |-> wrong_arc_edge,
               wrong_arc_none |-> wrong_arc_none, wrong_edge_none |-> wrong_edge_none,
               wrong_none_arc |-> wrong_none_arc, wrong_none_edge |-> wrong_none_edge])

\* ------------------------------------------------------------ float values
\* The floats of the metrics are quotients of small integers; they are kept
\* as reduced fractions n/d with d > 0.
RECURSIVE GCD(_, _)
GCD(a, b) == IF b = 0 THEN a ELSE GCD(b, a % b)

Rat(n, d) ==
    LET g == GCD(IF n < 0 THEN -n ELSE n, d)
    IN [n |-> n \div g, d |-> d \div g]

Zero == Rat(0, 1)
One == Rat(1, 1)
Two == Rat(2, 1)

RatAdd(x, y) == Rat(x.n * y.d + y.n * x.d, x.d * y.d)
RatMul(x, y) == Rat(x.n * y.n, x.d * y.d)

\* x / y of two floats or ints: ZeroDivisionError when y is zero
TrueDiv(op, x, y) ==
    IF y.n = 0 THEN Raise(op, "ZeroDivisionError")
    ELSE Return(op, Rat(x.n * y.d, x.d * y.n))

\* mutant: the harmonic mean without its factor 2.0
F1ScoreMetric_compute_NoDouble(ref, test) ==
    LET c == count_tp_fp_fn(ref, test)
        tp == c.tp
        fp == c.fp
        fn == c.fn
        p == IF (tp + fp) > 0
             THEN TrueDiv("F1-Score", Rat(tp, 1), Rat(tp + fp, 1))
             ELSE Return("F1-Score", Zero)
        r == IF (tp + fn) > 0
             THEN TrueDiv("F1-Score", Rat(tp, 1), Rat(tp + fn, 1))
             ELSE Return("F1-Score", Zero)
        precision == p.val
        recall == r.val
        out == IF p.kind = "raise" THEN p
               ELSE IF r.kind = "raise" THEN r
               ELSE IF RatAdd(precision, recall) = Zero
               THEN Return("F1-Score", Zero)
               ELSE TrueDiv("F1-Score",
                            RatMul(precision, recall),
                            RatAdd(precision, recall))
    IN [out |-> out, precision |-> precision, recall |-> recall]

\* mutant: no early return when precision + recall is zero
F1ScoreMetric_compute_NoZeroGuard(ref, test) ==
    LET c == count_tp_fp_fn(ref, test)
        tp == c.tp
        fp == c.fp
        fn == c.fn
        p == IF (tp + fp) > 0
             THEN TrueDiv("F1-Score", Rat(tp, 1), Rat(tp + fp, 1))
             ELSE Return("F1-Score", Zero)
        r == IF (tp + fn) > 0
             THEN TrueDiv("F1-Score", Rat(tp, 1), Rat(tp + fn, 1))
             ELSE Return("F1-Score", Zero)
        precision == p.val
        recall == r.val
        out == IF p.kind = "raise" THEN p
               ELSE IF r.kind = "raise" THEN r
               ELSE TrueDiv("F1-Score",
                            RatMul(RatMul(Two, precision), recall),
                            RatAdd(precision, recall))
    IN [out |-> out, precision |-> precision, recall |-> recall]

\* F1ScoreMetric.compute, lines 105-122; precision and recall are the locals
\* of lines 117-118, an exception of a division ends the call
F1ScoreMetric_compute(ref, test) ==
    LET c == count_tp_fp_fn(ref, test)
        tp == c.tp
        fp == c.fp
        fn == c.fn
        \* line 117
        p == IF (tp + fp) > 0
             THEN TrueDiv("F1-Score", Rat(tp, 1), Rat(tp + fp, 1))
             ELSE Return("F1-Score", Zero)
        \* line 118
        r == IF (tp + fn) > 0
             THEN TrueDiv("F1-Score", Rat(tp, 1), Rat(tp + fn, 1))
             ELSE Return("F1-Score", Zero)
        precision == p.val
        recall == r.val
        \* lines 120-122
        out == IF p.kind = "raise" THEN p
               ELSE IF r.kind = "raise" THEN r
               ELSE IF RatAdd(precision, recall) = Zero
               THEN Return("F1-Score", Zero)
               ELSE TrueDiv("F1-Score",
                            RatMul(RatMul(Two, precision), recall),
                            RatAdd(precision, recall))
    IN [out |-> out, precision |-> precision, recall |-> recall]

\* mutant: the division is made whatever its denominator
TPRMetric_compute_Unguarded(ref, test) ==
    LET c == count_tp_fp_fn(ref, test)
        tp == c.tp
        fn == c.fn
        out == TrueDiv("TPR", Rat(tp, 1), Rat(tp + fn, 1))
    IN [out |-> out]

\* TPRMetric.compute, lines 23-37
TPRMetric_compute(ref, test) ==
    LET c == count_tp_fp_fn(ref, test)
        tp == c.tp
        fn == c.fn
        out == IF (tp + fn) = 0
               THEN Return("TPR", Zero)
               ELSE TrueDiv("TPR", Rat(tp, 1), Rat(tp + fn, 1))
    IN [out |-> out]

\* inputs: every node pair carries at most one link
NodePairs == { p \in Nodes \X Nodes : p[1] < p[2] }
LinkKinds == {"none", "arc", "reversed", "edge"}

MixedGraph(f) ==
    [arcs |-> { p \in NodePairs : f[p] = "arc" }
              \cup { <<p[2], p[1]>> : p \in { q \in NodePairs : f[q] = "reversed" } },
     edges |-> { {p[1], p[2]} : p \in { q \in NodePairs : f[q] = "edge" } }]

CPDAGs ==
    { MixedGraph(f) : f \in { h \in [NodePairs -> LinkKinds] :
        Cardinality({ p \in NodePairs : h[p] # "none" }) <= MaxLinks } }

EmptyGraph == [arcs |-> {}, edges |-> {}]

CTInit ==
    /\ ref_cpdag \in CPDAGs
    /\ test_cpdag \in CPDAGs
    /\ ct_out = None
    /\ metric_out = None

CTIdle ==
    /\ ref_cpdag = EmptyGraph
    /\ test_cpdag = EmptyGraph
    /\ ct_out = None
    /\ metric_out = None

CountTpFpFn ==
    /\ ct_out' = Some(count_tp_fp_fn(ref_cpdag, test_cpdag))
    /\ UNCHANGED <<ctFrame, ref_cpdag, test_cpdag, metric_out>>

\* F1ScoreMetric().compute(ref, test); its line 115 calls count_tp_fp_fn.
\* One metric is computed on a pair of graphs: compute() reads nothing but
\* its arguments, so a later call cannot see an earlier one.
F1Compute ==
    /\ metric_out = None
    /\ ct_out' = Some(count_tp_fp_fn(ref_cpdag, test_cpdag))
    /\ metric_out' = Some(F1ScoreMetric_compute(ref_cpdag, test_cpdag))
    /\ UNCHANGED <<ctFrame, ref_cpdag, test_cpdag>>

\* TPRMetric().compute(ref, test); its line 33 calls count_tp_fp_fn
TPRCompute ==
    /\ metric_out = None
    /\ ct_out' = Some(count_tp_fp_fn(ref_cpdag, test_cpdag))
    /\ metric_out' = Some(TPRMetric_compute(ref_cpdag, test_cpdag))
    /\ UNCHANGED <<ctFrame, ref_cpdag, test_cpdag>>

CTNext == CountTpFpFn \/ F1Compute \/ TPRCompute

\* ---------------------------------------------------------------- hartemink
\* A table is the sequence of its columns, a column the sequence of its cells.
Values(col) == { col[r] : r \in DOMAIN col }
ColMin(col) == CHOOSE v \in Values(col) : \A w \in Values(col) : v <= w
ColMax(col) == CHOOSE v \in Values(col) : \A w \in Values(col) : w <= v

\* np.sort(np.unique(S)) of a set of integers
SortedUnique(S) ==
    [t \in 1..Cardinality(S) |->
        CHOOSE v \in S : Cardinality({ w \in S : w < v }) = t - 1]

\* np.sort(col)[t - 1]
OrderStat(col, t) ==
    CHOOSE v \in Values(col) :
        /\ Cardinality({ r \in DOMAIN col : col[r] < v }) < t
        /\ Cardinality({ r \in DOMAIN col : col[r] <= v }) >= t

\* line 94 and line 99: pd.cut(values, bins, retbins=True) cuts the range
\* [min, max] (widened by 0.1 % around a constant column) into bins
\* intervals of equal width, edge k being min + k * (max - min) / bins;
\* np.digitize(values, edges[1:-1]) counts the interior edges <= v
UniformLabel(col, bins, v) ==
    LET mn == ColMin(col)
        mx == ColMax(col)
    IN IF mn = mx
       THEN Cardinality({ k \in 1..(bins - 1) : 2 * k <= bins })
       ELSE Cardinality({ k \in 1..(bins - 1) :
                             k * (mx - mn) <= (v - mn) * bins })

\* line 92: the k-th of the q + 1 quantile edges of pd.qcut, times q
\* (linear interpolation between the two nearest order statistics, at the
\* position (n - 1) * k / q taken exactly)
QuantileEdge(col, q, k) ==
    LET h == (Len(col) - 1) * k
        lo == h \div q
        rem == h % q
        a == OrderStat(col, lo + 1)
        b == IF rem = 0 THEN a ELSE OrderStat(col, lo + 2)
    IN q * a + (b - a) * rem

\* line 92 and line 99: duplicates="drop" keeps the distinct edges,
\* edges[1:-1] drops the lowest and the highest of them, and np.digitize
\* counts the remaining edges <= v
QuantileLabel(col, q, v) ==
    LET edges == { QuantileEdge(col, q, k) : k \in 0..q }
        interior == edges \ { q * ColMin(col), q * ColMax(col) }
    IN Cardinality({ e \in interior : e <= q * v })

\* lines 89-99 for one column
InitialLabels(col, bins, method) ==
    [r \in DOMAIN col |->
        IF method = "quantile" THEN QuantileLabel(col, bins, col[r])
        ELSE UniformLabel(col, bins, col[r])]

\* line 104
Unique(col) == Cardinality(Values(col))

RECURSIVE ProdFn(_, _)
ProdFn(f, S) ==
    IF S = {} THEN 1
    ELSE LET x == CHOOSE y \in S : TRUE
         IN f[x] * ProdFn(f, S \ {x})

\* c ** c of a count, 1 for an empty cell (the cells skipped by line 43)
PowSelf(c) == IF c = 0 THEN 1 ELSE c ^ c

\* _mutual_information, lines 17-45, as exp(n * mi): with counts c of the
\* cells, r of the rows and s of the columns of the contingency table,
\* mi = sum (c/n) log(c n / (r s)), so that
\* exp(n mi) = n^n prod c^c / (prod r^r prod s^s)
MIExp(x, y) ==
    LET n == Len(x)
        xs == Values(x)
        ys == Values(y)
        cont == [c \in xs \X ys |->
                    PowSelf(Cardinality({ r \in 1..n : x[r] = c[1] /\ y[r] = c[2] }))]
        px == [a \in xs |-> PowSelf(Cardinality({ r \in 1..n : x[r] = a }))]
        py == [b \in ys |-> PowSelf(Cardinality({ r \in 1..n : y[r] = b }))]
    IN Rat((n ^ n) * ProdFn(cont, xs \X ys), ProdFn(px, xs) * ProdFn(py, ys))

\* the order of two exact values
RatGreater(x, y) == x.n * y.d > y.n * x.d

\* cont of lines 23-30: the rows follow the sorted values of x, the columns
\* those of y
ContingencyTable(x, y) ==
    LET xs == SortedUnique(Values(x))
        ys == SortedUnique(Values(y))
    IN [a \in 1..Len(xs) |->
           [b \in 1..Len(ys) |->
               Cardinality({ r \in DOMAIN x : x[r] = xs[a] /\ y[r] = ys[b] })]]

\* The operations behind a sum added up from left to right, s being the
\* sequence of its operands: the first two operands commute (a + b is b + a
\* and 0.0 + a is a), the others are added in their order.
SumCalc(s) ==
    [first |-> IF Len(s) = 0 THEN {}
               ELSE IF Len(s) = 1 THEN {<<s[1]>>}
               ELSE {<<s[1], s[2]>>, <<s[2], s[1]>>},
     rest |-> SubSeq(s, 3, Len(s))]

\* lines 37-38: a row or a column of pxy summed into px[i] or py[j]; an empty
\* cell adds 0.0, which changes nothing
MarginalCalc(counts) == SumCalc(SelectSeq(counts, LAMBDA c : c > 0))

\* lines 41-44: the terms added to mi, in the order of the two loops. The
\* double of a term is fixed by the count of its cell and by the row and the
\* column of cont that are summed into px[i] and py[j] (px[i] * py[j]
\* commutes).
MITerms(x, y) ==
    LET cont == ContingencyTable(x, y)
        rows == Len(cont)
        cols == IF rows = 0 THEN 0 ELSE Len(cont[1])
        cell(k) == <<((k - 1) \div cols) + 1, ((k - 1) % cols) + 1>>
        term(k) == [c |-> cont[cell(k)[1]][cell(k)[2]],
                    marginals |-> { MarginalCalc(cont[cell(k)[1]]),
                                    MarginalCalc([a \in 1..rows |-> cont[a][cell(k)[2]]]) }]
    IN SelectSeq([k \in 1..(rows * cols) |-> term(k)], LAMBDA t : t.c > 0)

\* A double computed by the code is kept as its exact value exp, given as
\* exp(n * value), together with calc, the floating-point operations that
\* produced it: two doubles of the same calc are the same double, two doubles
\* of different exact values are ordered as these are (the exact values that
\* can occur differ by far more than the rounding errors), and two doubles of
\* the same exact value but of different calc may come out equal or in
\* either order, as the roundings of the build's log and sums fall.
Float(exp, calc) == [exp |-> exp, calc |-> calc]
\* the literal 0.0
FloatZero == Float(One, [n |-> 0, sum |-> SumCalc(<<>>)])
\* a + b, which is b + a, and the other operand when one is 0.0
FloatAdd(a, b) ==
    IF a = FloatZero THEN b
    ELSE IF b = FloatZero THEN a
    ELSE Float(RatMul(a.exp, b.exp), [n |-> 0, sum |-> SumCalc(<<a.calc, b.calc>>)])
\* the values a > b can have
FloatGreater(a, b) ==
    IF RatGreater(a.exp, b.exp) THEN {TRUE}
    ELSE IF RatGreater(b.exp, a.exp) THEN {FALSE}
    ELSE IF a.calc = b.calc THEN {FALSE}
    ELSE BOOLEAN
\* the values a == b can have
FloatEqual(a, b) ==
    IF a.exp # b.exp THEN {FALSE}
    ELSE IF a.calc = b.calc THEN {TRUE}
    ELSE BOOLEAN

\* mutant: the marginal of y is taken from x
mutual_information_OneMarginal(x, y) ==
    IF Len(x) = 0 \/ (Unique(x) = 1 /\ Unique(y) = 1) THEN FloatZero
    ELSE Float(MIExp(x, x), [n |-> Len(x), sum |-> SumCalc(MITerms(x, x))])

\* lines 17-45; lines 34-35 return 0.0 for an empty sample, line 36 divides
\* the counts by n; two constant sequences have the single term
\* 1.0 * log(1.0 / (1.0 * 1.0)), which is 0.0
_mutual_information(x, y) ==
    IF Len(x) = 0 \/ (Unique(x) = 1 /\ Unique(y) = 1) THEN FloatZero
    ELSE Float(MIExp(x, y), [n |-> Len(x), sum |-> SumCalc(MITerms(x, y))])

\* mutant: the higher bin is merged into the lowest bin of the column
Merged_IntoLowest(col, bin_lo, bin_hi) ==
    [r \in DOMAIN col |-> IF col[r] = bin_hi THEN ColMin(col) ELSE col[r]]

\* lines 120-121
Merged(col, bin_lo, bin_hi) ==
    [r \in DOMAIN col |-> IF col[r] = bin_hi THEN bin_lo ELSE col[r]]

\* lines 123-126: total_mi starts at 0.0 and the mutual information with
\* every other column is added to it
RECURSIVE TotalMI(_, _, _, _, _)
TotalMI(labels, jj, merged, other_j, total_mi) ==
    IF other_j > Len(labels) THEN total_mi
    ELSE IF other_j = jj THEN TotalMI(labels, jj, merged, other_j + 1, total_mi)
    ELSE TotalMI(labels, jj, merged, other_j + 1,
                 FloatAdd(total_mi, _mutual_information(merged, labels[other_j])))

\* lines 114-130: the values best_pair can have after the loop; best_mi is
\* None for -inf. The test of line 128 compares two doubles.
RECURSIVE BestPairLoop(_, _, _, _, _)
BestPairLoop(labels, jj, k, best_mi, best_pair) ==
    LET adjacent_bins == SortedUnique(Values(labels[jj]))
    IN IF k > Len(adjacent_bins) - 1 THEN {best_pair}
       ELSE LET bin_lo == adjacent_bins[k]
                bin_hi == adjacent_bins[k + 1]
                merged == Merged(labels[jj], bin_lo, bin_hi)
                total_mi == TotalMI(labels, jj, merged, 1, FloatZero)
                greater == IF best_mi = None THEN {TRUE}
                           ELSE FloatGreater(total_mi, best_mi[1])
            IN UNION { IF g
                       THEN BestPairLoop(labels, jj, k + 1, Some(total_mi),
                                         Some(<<bin_lo, bin_hi>>))
                       ELSE BestPairLoop(labels, jj, k + 1, best_mi, best_pair)
                       : g \in greater }

BestPair(labels, jj) == BestPairLoop(labels, jj, 1, None, None)

\* lines 74-75
InitialBinsOf(ib, nb) == IF ib = None THEN nb * 3 ELSE ib[1]

\* mutant: equal bin counts are let through, unless they are 0
InvalidBins_Strict(ib, nb) == ib < nb \/ ib = 0

\* line 76
InvalidBins(ib, nb) == ib <= nb

KnownMethods == {"quantile", "uniform"}

\* the messages of lines 77-79 and 96-98, without the interpolated values
BinsError == "initial_bins must be strictly greater than n_bins"
MethodError == "initial_method must be 'quantile' or 'uniform'"

\* line 106
AnyAbove(counts, nb) == \E c \in DOMAIN counts : counts[c] > nb

\* mutant: the labels are the surviving bin values themselves
Relabel_KeepsBinValues(labels) ==
    [c \in DOMAIN labels |->
        [r \in DOMAIN labels[c] |-> ToString(labels[c][r])]]

\* lines 140-144: label_map sends the i-th smallest surviving bin value to
\* str(i)
Relabel(labels) ==
    [c \in DOMAIN labels |->
        [r \in DOMAIN labels[c] |->
            ToString(Cardinality({ v \in Values(labels[c]) : v < labels[c][r] }))]]

\* inputs
Columns == [1..NumRows -> CellValues]
\* two tables of five rows whose first column has initial bins 0, 0, 1, 2, 2
\* under three initial bins: merging its bins 0 and 1 and merging its bins 1
\* and 2 leave the same exact mutual information with the second column,
\* added up from the same terms in another order
TieTables == { << <<0, 0, 1, 3, 3>>, <<0, 0, 3, 1, 1>> >>,
               << <<0, 0, 1, 3, 3>>, <<3, 3, 0, 3, 3>> >> }
Tables == UNION { [1..c -> Columns] : c \in ColumnCounts } \cup TieTables
InitialBinsArgs == {None} \cup { Some(b) : b \in 1..(MaxBins + 1) }

HKInit ==
    /\ df \in Tables
    /\ n_bins \in 0..MaxBins
    /\ initial_bins \in InitialBinsArgs
    /\ initial_method \in Methods
    /\ hpc = "call"
    /\ bin_labels = None
    /\ n_bins_per_var = None
    /\ var_j = 0
    /\ h_out = None
    /\ merges = 0
    /\ initial_bin_labels = None

HKIdle ==
    /\ df = <<>>
    /\ n_bins = 1
    /\ initial_bins = None
    /\ initial_method = "quantile"
    /\ hpc = "idle"
    /\ bin_labels = None
    /\ n_bins_per_var = None
    /\ var_j = 0
    /\ h_out = None
    /\ merges = 0
    /\ initial_bin_labels = None

\* lines 74-79: the bin counts are rejected
RejectBins ==
    /\ hpc = "call"
    /\ InvalidBins(InitialBinsOf(initial_bins, n_bins), n_bins)
    /\ h_out' = Some(Raise("hartemink_discretize", BinsError))
    /\ hpc' = "done"
    /\ UNCHANGED <<hkFrame, hkArgs, initial_bin_labels, merges, bin_labels, n_bins_per_var, var_j>>

\* lines 74-98: the first iteration of the loop over the columns reaches the
\* else branch; the array of line 87 is dropped unfilled
RejectMethod ==
    /\ hpc = "call"
    /\ ~InvalidBins(InitialBinsOf(initial_bins, n_bins), n_bins)
    /\ Len(df) > 0
    /\ initial_method \notin KnownMethods
    /\ h_out' = Some(Raise("hartemink_discretize", MethodError))
    /\ hpc' = "done"
    /\ UNCHANGED <<hkFrame, hkArgs, initial_bin_labels, merges, bin_labels, n_bins_per_var, var_j>>

\* lines 74-104: every column gets its initial labels; the loop over the
\* columns has no iteration, and so no test of the method, for a table
\* without columns
Discretize ==
    /\ hpc = "call"
    /\ ~InvalidBins(InitialBinsOf(initial_bins, n_bins), n_bins)
    /\ Len(df) = 0 \/ initial_method \in KnownMethods
    /\ bin_labels' = [c \in 1..Len(df) |->
                         InitialLabels(df[c], InitialBinsOf(initial_bins, n_bins),
                                       initial_method)]
    /\ n_bins_per_var' = [c \in 1..Len(df) |-> Unique(bin_labels'[c])]
    /\ var_j' = Len(df) + 1
    /\ hpc' = "merging"
    /\ initial_bin_labels' = bin_labels'
    /\ UNCHANGED <<hkFrame, hkArgs, merges, h_out>>

\* lines 106-107: the while test holds, the for loop starts again
NextRound ==
    /\ hpc = "merging"
    /\ var_j > Len(df)
    /\ AnyAbove(n_bins_per_var, n_bins)
    /\ var_j' = 1
    /\ UNCHANGED <<hkFrame, hkArgs, initial_bin_labels, merges, hpc, bin_labels, n_bins_per_var, h_out>>

\* lines 108-109
SkipColumn ==
    /\ hpc = "merging"
    /\ var_j <= Len(df)
    /\ n_bins_per_var[var_j] <= n_bins
    /\ var_j' = var_j + 1
    /\ UNCHANGED <<hkFrame, hkArgs, initial_bin_labels, merges, hpc, bin_labels, n_bins_per_var, h_out>>

\* mutant: the bin count of the merged column is not decremented
MergeColumn_KeepsCount ==
    /\ hpc = "merging"
    /\ var_j <= Len(df)
    /\ n_bins_per_var[var_j] > n_bins
    /\ \E best_pair \in BestPair(bin_labels, var_j) :
          /\ best_pair # None
          /\ bin_labels' = [bin_labels EXCEPT
                 ![var_j] = Merged(@, best_pair[1][1], best_pair[1][2])]
    /\ var_j' = var_j + 1
    /\ merges' = merges + 1
    /\ UNCHANGED <<hkFrame, hkArgs, initial_bin_labels, hpc, n_bins_per_var, h_out>>

\* lines 111-135: the best pair of adjacent bins of column var_j is merged
MergeColumn ==
    /\ hpc = "merging"
    /\ var_j <= Len(df)
    /\ n_bins_per_var[var_j] > n_bins
    /\ \E best_pair \in BestPair(bin_labels, var_j) :
          /\ best_pair # None
          /\ bin_labels' = [bin_labels EXCEPT
                 ![var_j] = Merged(@, best_pair[1][1], best_pair[1][2])]
    /\ n_bins_per_var' = [n_bins_per_var EXCEPT ![var_j] = @ - 1]
    /\ var_j' = var_j + 1
    /\ merges' = merges + 1
    /\ UNCHANGED <<hkFrame, hkArgs, initial_bin_labels, hpc, h_out>>

\* lines 111-132: a column with a single bin has no pair to merge
NoPair ==
    /\ hpc = "merging"
    /\ var_j <= Len(df)
    /\ n_bins_per_var[var_j] > n_bins
    /\ None \in BestPair(bin_labels, var_j)
    /\ var_j' = var_j + 1
    /\ UNCHANGED <<hkFrame, hkArgs, initial_bin_labels, merges, hpc, bin_labels, n_bins_per_var, h_out>>

\* lines 106, 140-146: the while test fails, the table is relabelled
Finish ==
    /\ hpc = "merging"
    /\ var_j > Len(df)
    /\ ~AnyAbove(n_bins_per_var, n_bins)
    /\ h_out' = Some(Return("hartemink_discretize", Relabel(bin_labels)))
    /\ hpc' = "done"
    /\ UNCHANGED <<hkFrame, hkArgs, initial_bin_labels, merges, bin_labels, n_bins_per_var, var_j>>

HKNext ==
    \/ RejectBins
    \/ RejectMethod
    \/ Discretize
    \/ NextRound
    \/ SkipColumn
    \/ MergeColumn
    \/ NoPair
    \/ Finish

\* ------------------------------------------------------------------ Dataset
\* a data matrix, as its shape (n_samples, n_features)
Matrix(n_samples, n_features) == [shape |-> <<n_samples, n_features>>]

\* line 44: name or default; None and the empty string are falsy
OrStr(x, default) == IF x = None \/ x[1] = "" THEN default ELSE x[1]

\* line 45: feature_names or default; None and the empty list are falsy
OrList(x, default) == IF x = None \/ x[1] = <<>> THEN default ELSE x[1]

\* line 45: [f"X{i}" for i in range(data.shape[1])]
DefaultNames(data) == [k \in 1..data.shape[2] |-> "X" \o ToString(k - 1)]

\* lines 48-55
n_samples(data) == data.shape[1]
n_features(data) == data.shape[2]

\* Dataset.__init__, lines 42-45
Dataset(data, golden, name, feature_names) ==
    [data |-> data,
     golden_structure |-> golden,
     name |-> OrStr(name, "unnamed"),
     feature_names |-> OrList(feature_names, DefaultNames(data))]

\* inputs
Matrices ==
    { Matrix(s, f) : s \in SampleCounts, f \in 0..MaxFeatures }
NameLists ==
    UNION { [1..n -> NamePool] : n \in 0..(MaxFeatures + 1) }
FeatureNamesArgs == {None} \cup { Some(l) : l \in NameLists }
NameArgs == { None, Some(""), Some("sachs") }
GoldenArgs == {None} \cup { Some(g) : g \in Structures }

DSInit ==
    \E data \in Matrices, golden \in GoldenArgs, name \in NameArgs,
       feature_names \in FeatureNamesArgs :
        LET self == Dataset(data, golden, name, feature_names)
        IN /\ ds_data = self.data
           /\ ds_golden_structure = self.golden_structure
           /\ ds_name = self.name
           /\ ds_feature_names = self.feature_names
           /\ ds_call = [op |-> "__init__", feature_names |-> feature_names]

DSIdle ==
    /\ ds_data = Matrix(0, 0)
    /\ ds_golden_structure = None
    /\ ds_name = "unnamed"
    /\ ds_feature_names = <<>>
    /\ ds_call = [op |-> "none", feature_names |-> None]

\* set_golden_structure, lines 57-66
SetGoldenStructure(structure) ==
    /\ ds_call.op # "none"
    /\ ds_golden_structure' = Some(structure)
    /\ ds_call' = [ds_call EXCEPT !.op = "set_golden_structure"]
    /\ UNCHANGED <<dsFrame, ds_data, ds_name, ds_feature_names>>

DSNext == \E g \in Structures : SetGoldenStructure(g)

\* ------------------------------------------------------- _mutual_information
\* inputs: two label sequences of the same length
LabelSeqs(n) == [1..n -> Labels]

\* a pair of five samples: the call and the call with the arguments
\* exchanged add the same three terms in another order
RoundingPairs == { << <<0, 0, 0, 0, 1>>, <<0, 1, 2, 2, 0>> >> }

MIInit ==
    /\ \/ \E n \in 0..NumRows : mi_x \in LabelSeqs(n) /\ mi_y \in LabelSeqs(n)
       \/ \E p \in RoundingPairs : mi_x = p[1] /\ mi_y = p[2]
    /\ mi_out = None

MIIdle ==
    /\ mi_x = <<>>
    /\ mi_y = <<>>
    /\ mi_out = None

MutualInformation ==
    /\ mi_out = None
    /\ mi_out' = Some(Return("_mutual_information", _mutual_information(mi_x, mi_y)))
    /\ UNCHANGED <<miFrame, mi_x, mi_y>>

MINext == MutualInformation

\* ----------------------------------------------------------- specifications
Init == GSInit /\ PFIdle /\ CTIdle /\ HKIdle /\ DSIdle /\ MIIdle
Next == GSNext
Spec == Init /\ [][Next]_vars

InitPareto == GSIdle /\ PFInit /\ CTIdle /\ HKIdle /\ DSIdle /\ MIIdle
NextPareto == PFNext
SpecPareto == InitPareto /\ [][NextPareto]_vars

InitCount == GSIdle /\ PFIdle /\ CTInit /\ HKIdle /\ DSIdle /\ MIIdle
NextCount == CTNext
SpecCount == InitCount /\ [][NextCount]_vars

InitHartemink == GSIdle /\ PFIdle /\ CTIdle /\ HKInit /\ DSIdle /\ MIIdle
NextHartemink == HKNext
SpecHartemink == InitHartemink /\ [][NextHartemink]_vars

\* the call has neither returned nor raised: exactly the states in which
\* NextHartemink can take a step
HKRunning == hpc \in {"call", "merging"}

\* the interpreter runs on: while the call has not ended its next statement
\* is executed. This is weak fairness of NextHartemink, with its
\* enabledness written out as HKRunning.
SpecHarteminkFair ==
    /\ InitHartemink
    /\ [][NextHartemink]_vars
    /\ ([]<>(~HKRunning) \/ []<><<NextHartemink>>_vars)

InitDataset == GSIdle /\ PFIdle /\ CTIdle /\ HKIdle /\ DSInit /\ MIIdle
NextDataset == DSNext
SpecDataset == InitDataset /\ [][NextDataset]_vars

InitMI == GSIdle /\ PFIdle /\ CTIdle /\ HKIdle /\ DSIdle /\ MIInit
NextMI == MINext
SpecMI == InitMI /\ [][NextMI]_vars

\* =================================================================== claims
\* ------------------------------------------------------------ grid search
LastResult == results[Len(results)]
RunReturned == pc = "idle" /\ is_fitted
KeyNames == { param_grid[k].name : k \in 1..Len(param_grid) }
GridLens == [k \in 1..Len(param_grid) |-> Len(param_grid[k].values)]
\* number of combinations that share one value of key k before it moves on
Stride(k) == SeqProd(SubSeq(GridLens, k + 1, Len(GridLens)))
\* direction of a metric for best_result
LowerIsBetter(m) == IF m \in DOMAIN objectives THEN objectives[m] ELSE TRUE
ValidTrials(m) == { n \in 1..Len(results) : m \in DOMAIN results[n].scores }
QueryOps == {"best_result", "best_params", "best_score", "get_results_dataframe"}

\* C1: an exception raised by the constructor, by learn_structure or by a
\* metric's compute is caught: the combination is recorded as a result with
\* empty scores and the error message, run() goes on with the next combination
\* and returns normally with one result per combination.
C1_ExceptionsAreRecorded ==
    /\ caught # None =>
          /\ pc \in {"trial", "idle"}
          /\ Len(results) >= 1
          /\ DOMAIN LastResult.scores = {}
          /\ LastResult.error = Some(caught[1].msg)
          /\ i = Len(results) + 1
    /\ ret.out.op = "run" => ret.out.kind # "raise"
    /\ (ret.out.op = "run" /\ ret.out.kind = "return") =>
          Len(results) = Len(combinations)

\* C1 witness: run() has returned; the first combination failed and the
\* second one was still executed and succeeded.
C1_Witness ==
    /\ RunReturned
    /\ ret.out.op = "run"
    /\ Len(results) >= 2
    /\ results[1].error # None
    /\ DOMAIN results[1].scores = {}
    /\ results[2].error = None

\* C2 (as claimed): when a metric's compute fails in a trial whose learner
\* succeeded, the trial is not turned into a failed trial and its result keeps
\* the scores of the other metrics.
C2_MetricFailureKeepsOtherScores ==
    (caught # None /\ caught[1].site = "compute") =>
        /\ LastResult.error = None
        /\ caught[1].computed \subseteq DOMAIN LastResult.scores

\* C2 (amended): when a metric's compute fails in a trial whose learner
\* succeeded, the failure is caught for that trial only, but the whole trial is
\* turned into a failed trial: its result has empty scores (the scores computed
\* for the other metrics are discarded) and carries the error message.
C2_MetricFailureFailsTrial ==
    (caught # None /\ caught[1].site = "compute") =>
        /\ pc \in {"trial", "idle"}
        /\ LastResult.error = Some(caught[1].msg)
        /\ DOMAIN LastResult.scores = {}

\* C2 witness: the second metric failed after the first one had been computed.
C2_Witness ==
    /\ caught # None
    /\ caught[1].site = "compute"
    /\ caught[1].computed # {}
    /\ Len(results) >= 1
    /\ LastResult.error # None

\* C3: after run(), results holds one result per element of the Cartesian
\* product of the value lists, in product order (first key slowest, last key
\* fastest), and params maps every grid key to the value of the combination.
C3_CartesianProductOrder ==
    RunReturned =>
        /\ Len(results) = SeqProd(GridLens)
        /\ \A n \in 1..Len(results) :
              /\ DOMAIN results[n].params = KeyNames
              /\ \A k \in 1..Len(param_grid) :
                    results[n].params[param_grid[k].name] =
                        param_grid[k].values[(((n - 1) \div Stride(k)) % GridLens[k]) + 1]

\* C3 witness: a completed run over a 2 x 2 grid.
C3_Witness ==
    /\ RunReturned
    /\ Len(param_grid) = 2
    /\ Len(results) = 4

\* C4: after run(), best_result(metric) returns a trial that has the metric and
\* whose score is the minimum (lower is better) or the maximum (otherwise) over
\* the trials that have it, and returns None without raising when no trial has it.
C4_BestResultIsOptimal ==
    (ret.out.op = "best_result" /\ is_fitted) =>
        LET m == ret.arg[1]
        IN /\ ret.out.kind = "return"
           /\ (ret.out.val = None) <=> (ValidTrials(m) = {})
           /\ ret.out.val # None =>
                 \E n \in ValidTrials(m) :
                    /\ results[n] = ret.out.val[1]
                    /\ \A j \in ValidTrials(m) :
                          IF LowerIsBetter(m)
                          THEN results[n].scores[m] <= results[j].scores[m]
                          ELSE results[n].scores[m] >= results[j].scores[m]

\* C4 witness: best_result returned a trial that strictly beats the first
\* trial having the metric.
C4_Witness ==
    /\ ret.out.op = "best_result"
    /\ ret.out.kind = "return"
    /\ ret.out.val # None
    /\ \E j \in ValidTrials(ret.arg[1]) :
          results[j].scores[ret.arg[1]] # ret.out.val[1].scores[ret.arg[1]]

\* C5: before run() has been executed, best_result, best_params, best_score and
\* get_results_dataframe raise the "not yet run" error; once run() has completed
\* none of them raises it.
C5_NotYetRun ==
    ret.out.op \in QueryOps =>
        IF is_fitted
        THEN ret.out.kind = "return"
        ELSE ret.out.kind = "raise" /\ ret.out.val = NotRunError

\* C5 witness: get_results_dataframe was called on a search that was never run.
C5_Witness ==
    /\ ~is_fitted
    /\ ret.out.op = "get_results_dataframe"
    /\ ret.out.kind = "raise"

\* --------------------------------------------------------- Pareto selector
ObjectiveNames == { pf_objectives[k].name : k \in 1..Len(pf_objectives) }
HasEveryObjective(r) == ObjectiveNames \subseteq DOMAIN r.scores
AtLeastAsGood(a, b, o) ==
    IF o.lower THEN a.scores[o.name] <= b.scores[o.name]
    ELSE a.scores[o.name] >= b.scores[o.name]
StrictlyBetter(a, b, o) ==
    IF o.lower THEN a.scores[o.name] < b.scores[o.name]
    ELSE a.scores[o.name] > b.scores[o.name]
\* A dominates B
Dominates(a, b) ==
    /\ \A k \in 1..Len(pf_objectives) : AtLeastAsGood(a, b, pf_objectives[k])
    /\ \E k \in 1..Len(pf_objectives) : StrictlyBetter(a, b, pf_objectives[k])
\* the positions of the results list that belong to the front
FrontPositions ==
    { k \in 1..Len(pf_results) :
        /\ HasEveryObjective(pf_results[k])
        /\ ~\E j \in 1..Len(pf_results) :
              /\ j # k
              /\ HasEveryObjective(pf_results[j])
              /\ Dominates(pf_results[j], pf_results[k]) }
\* the elements of seq at the positions P, in order
RECURSIVE AtPositions(_, _, _)
AtPositions(seq, P, k) ==
    IF k > Len(seq) THEN <<>>
    ELSE (IF k \in P THEN <<seq[k]>> ELSE <<>>) \o AtPositions(seq, P, k + 1)
ExpectedFront == AtPositions(pf_results, FrontPositions, 1)
ReturnedFront == pf_out.outcome.val

\* C6: pareto_front returns exactly the results that have a score for every
\* objective and are dominated by no other such result.
C6_ParetoFrontIsNonDominatedSet ==
    pf_out.op = "pareto_front" => ReturnedFront = ExpectedFront

\* C6 witness: of three results one lacks an objective, one is dominated and
\* one is returned.
C6_Witness ==
    /\ pf_out.op = "pareto_front"
    /\ Len(pf_results) = 3
    /\ Len(ReturnedFront) = 1
    /\ Cardinality({ k \in 1..3 : HasEveryObjective(pf_results[k]) }) = 2

\* C7: the returned front is an antichain: no member dominates another one.
C7_FrontIsAntichain ==
    pf_out.op = "pareto_front" =>
        \A a, b \in 1..Len(ReturnedFront) :
            ~Dominates(ReturnedFront[a], ReturnedFront[b])

\* C7 witness: a front of two results with different scores, and a dominated
\* result left out.
C7_Witness ==
    /\ pf_out.op = "pareto_front"
    /\ Len(ReturnedFront) = 2
    /\ ReturnedFront[1].scores # ReturnedFront[2].scores
    /\ Len(pf_results) = 3
    /\ \A k \in 1..3 : HasEveryObjective(pf_results[k])

\* C8: results that lack an objective never change the front: pareto_front(R)
\* is pareto_front(R restricted to the results that have every objective).
C8_InvalidResultsAreIgnored ==
    pf_out.op = "pareto_front" =>
        ReturnedFront =
            pareto_front(SelectSeq(pf_results, HasEveryObjective), pf_objectives)

\* C8 witness: a non-empty front of a list that holds a result lacking an
\* objective.
C8_Witness ==
    /\ pf_out.op = "pareto_front"
    /\ ReturnedFront # <<>>
    /\ \E k \in 1..Len(pf_results) : ~HasEveryObjective(pf_results[k])

\* C9 (as claimed): best_pareto returns None exactly when the front is empty,
\* and otherwise returns a member of the front whose rank_by score is the
\* minimum (lower is better) or the maximum (otherwise) over the front.
C9_BestParetoReturnsBestOfFront ==
    pf_out.op = "best_pareto" =>
        LET out == pf_out.outcome
            rank_by == pf_out.rank_by[1]
        IN /\ out.kind = "return"
           /\ (out.val = None) <=> (ExpectedFront = <<>>)
           /\ out.val # None =>
                 \E k \in 1..Len(ExpectedFront) :
                    /\ ExpectedFront[k] = out.val[1]
                    /\ \A j \in 1..Len(ExpectedFront) :
                          IF pf_out.lower[1]
                          THEN ExpectedFront[k].scores[rank_by]
                                  <= ExpectedFront[j].scores[rank_by]
                          ELSE ExpectedFront[k].scores[rank_by]
                                  >= ExpectedFront[j].scores[rank_by]

\* ----------------------------------------------------------- count_tp_fp_fn
\* the link a graph carries on a node pair
Link(g, p) ==
    IF <<p[1], p[2]>> \in g.arcs THEN "arc"
    ELSE IF <<p[2], p[1]>> \in g.arcs THEN "reversed"
    ELSE IF {p[1], p[2]} \in g.edges THEN "edge"
    ELSE "none"
\* pairs linked in both graphs with a different orientation or type
MismatchedPairs ==
    { p \in NodePairs : /\ Link(ref_cpdag, p) # "none"
                        /\ Link(test_cpdag, p) # "none"
                        /\ Link(ref_cpdag, p) # Link(test_cpdag, p) }
\* pairs linked in the reference only, in the test only
MissingPairs ==
    { p \in NodePairs : Link(ref_cpdag, p) # "none" /\ Link(test_cpdag, p) = "none" }
SpuriousPairs ==
    { p \in NodePairs : Link(ref_cpdag, p) = "none" /\ Link(test_cpdag, p) # "none" }

\* C10: a node pair linked in both graphs with a different orientation or type
\* adds exactly 1 to FP and 0 to FN; FN counts only the reference links whose
\* pair has no link at all in the test graph.
C10_MismatchCountsAsFPOnly ==
    ct_out # None =>
        /\ ct_out[1].fp = Cardinality(MismatchedPairs) + Cardinality(SpuriousPairs)
        /\ ct_out[1].fn = Cardinality(MissingPairs)

\* C10 witness: the graphs were compared; one pair is mismatched and another
\* reference link is missing from the test graph.
C10_Witness ==
    /\ ct_out # None
    /\ MismatchedPairs # {}
    /\ MissingPairs # {}

\* ---------------------------------------------------------------- metrics
NumLinks(g) == Cardinality(g.arcs) + Cardinality(g.edges)
Counts == ct_out[1]
MetricName == metric_out[1].out.op
MetricValue == metric_out[1].out.val
MetricReturned == metric_out # None /\ metric_out[1].out.kind = "return"

\* C11 as stated: comparing a CPDAG to itself gives FP = 0, FN = 0 and
\* TP = |arcs| + |edges|, and precision = recall = F1 = TPR = 1.0, for any
\* CPDAG.
C11_SelfComparisonIsPerfect ==
    ref_cpdag = test_cpdag =>
        /\ ct_out # None =>
               Counts = [tp |-> NumLinks(ref_cpdag), fp |-> 0, fn |-> 0]
        /\ metric_out # None =>
               /\ metric_out[1].out = Return(MetricName, One)
               /\ MetricName = "F1-Score" =>
                      /\ metric_out[1].precision = One
                      /\ metric_out[1].recall = One

\* C11 amended: comparing a CPDAG to itself gives FP = 0, FN = 0 and
\* TP = |arcs| + |edges|; precision = recall = F1 = TPR = 1.0 when the graph
\* has at least one arc or edge, and all four are 0.0 when it has none.
C11_SelfComparisonIsPerfectUnlessEmpty ==
    ref_cpdag = test_cpdag =>
        LET v == IF NumLinks(ref_cpdag) > 0 THEN One ELSE Zero
        IN /\ ct_out # None =>
                  Counts = [tp |-> NumLinks(ref_cpdag), fp |-> 0, fn |-> 0]
           /\ metric_out # None =>
                  /\ metric_out[1].out = Return(MetricName, v)
                  /\ MetricName = "F1-Score" =>
                         /\ metric_out[1].precision = v
                         /\ metric_out[1].recall = v

C11_Witness ==
    /\ ref_cpdag = test_cpdag
    /\ ref_cpdag.arcs # {} /\ ref_cpdag.edges # {}
    /\ ct_out # None
    /\ MetricReturned /\ MetricName = "F1-Score" /\ MetricValue = One

\* reference {arc 0 -> 1, edge 1 - 2} and test {arc 1 -> 0, edge 1 - 2}
ReversedArcRef == [arcs |-> {<<0, 1>>}, edges |-> {{1, 2}}]
ReversedArcTest == [arcs |-> {<<1, 0>>}, edges |-> {{1, 2}}]

\* C12: for the reference {arc 0 -> 1, edge 1 - 2} and the test
\* {arc 1 -> 0, edge 1 - 2} the counts are TP = 1, FP = 1, FN = 0, so that
\* precision is 1/2, recall is 1 and TPR is 1: the reversed arc is one false
\* positive and neither a false negative nor a true positive.
C12_ReversedArcIsOneFalsePositive ==
    (ref_cpdag = ReversedArcRef /\ test_cpdag = ReversedArcTest) =>
        /\ ct_out # None => Counts = [tp |-> 1, fp |-> 1, fn |-> 0]
        /\ (metric_out # None /\ MetricName = "F1-Score") =>
               /\ metric_out[1].out.kind = "return"
               /\ metric_out[1].precision = Rat(1, 2)
               /\ metric_out[1].recall = One
        /\ (metric_out # None /\ MetricName = "TPR") =>
               metric_out[1].out = Return("TPR", One)

C12_Witness ==
    /\ ref_cpdag = ReversedArcRef /\ test_cpdag = ReversedArcTest
    /\ ct_out # None /\ Counts.fp = 1
    /\ MetricReturned /\ MetricName = "TPR"

\* C13: when the test graph has no arc and no edge, TP = 0, FP = 0 and
\* FN = |reference arcs| + |reference edges| (the only place a non-zero FN
\* arises without a mismatch), and F1 and TPR are 0.0.
C13_EmptyTestGraph ==
    test_cpdag = EmptyGraph =>
        /\ ct_out # None =>
               Counts = [tp |-> 0, fp |-> 0, fn |-> NumLinks(ref_cpdag)]
        /\ metric_out # None => metric_out[1].out = Return(MetricName, Zero)

C13_Witness ==
    /\ test_cpdag = EmptyGraph
    /\ ref_cpdag = [arcs |-> {<<0, 1>>}, edges |-> {}]
    /\ ct_out # None /\ Counts.fn = 1
    /\ MetricReturned /\ MetricName = "F1-Score" /\ MetricValue = Zero

\* C14: F1ScoreMetric.compute and TPRMetric.compute never raise on a zero
\* denominator: precision is 0.0 when TP + FP = 0, recall and TPR are 0.0
\* when TP + FN = 0, F1 is 0.0 when precision + recall = 0; and TPR is
\* always the recall that F1 uses on the same graphs.
C14_DegenerateDenominators ==
    metric_out # None =>
        LET c == count_tp_fp_fn(ref_cpdag, test_cpdag)
        IN /\ metric_out[1].out.kind = "return"
           /\ MetricName = "F1-Score" =>
                  /\ (c.tp + c.fp = 0) => metric_out[1].precision = Zero
                  /\ (c.tp + c.fn = 0) => metric_out[1].recall = Zero
                  /\ (c.tp = 0) => MetricValue = Zero
                  /\ LET tpr == TPRMetric_compute(ref_cpdag, test_cpdag).out
                     IN /\ tpr.kind = "return"
                        /\ tpr.val = metric_out[1].recall
           /\ MetricName = "TPR" =>
                  /\ (c.tp + c.fn = 0) => MetricValue = Zero
                  /\ MetricValue
                         = F1ScoreMetric_compute(ref_cpdag, test_cpdag).recall

C14_Witness ==
    /\ ref_cpdag = EmptyGraph
    /\ test_cpdag # EmptyGraph
    /\ MetricReturned /\ MetricName = "TPR" /\ MetricValue = Zero

\* -------------------------------------------------------------- hartemink
HReturned == h_out # None /\ h_out[1].kind = "return"
HRaised(msg) == h_out = Some(Raise("hartemink_discretize", msg))
HTable == h_out[1].val
\* the initial_bins in force, and the number of distinct bins the initial
\* discretization gives column c
EffectiveBins == InitialBinsOf(initial_bins, n_bins)
InitialCount(c) == Unique(InitialLabels(df[c], EffectiveBins, initial_method))
LabelsOf(k) == { ToString(t) : t \in 0..(k - 1) }
LabelRank(label) == CHOOSE t \in 0..NumRows : ToString(t) = label
\* the labels of column c follow the order of its surviving bin values
OrderedAsBins(c) ==
    \A r, t \in DOMAIN df[c] :
        (bin_labels[c][r] < bin_labels[c][t])
            <=> (LabelRank(HTable[c][r]) < LabelRank(HTable[c][t]))

\* C15 as stated: for every input table and every n_bins < initial_bins, the
\* returned table has exactly n_bins distinct labels in every column, the
\* strings "0" .. "n_bins-1", in increasing order of the surviving bin values.
C15_ExactlyNBinsLabels ==
    HReturned =>
        \A c \in 1..Len(df) :
            /\ { HTable[c][r] : r \in DOMAIN df[c] } = LabelsOf(n_bins)
            /\ OrderedAsBins(c)

\* C15 amended: every column of the returned table has exactly min(n_bins, d)
\* distinct labels, d being the number of distinct bins the initial
\* discretization gives the column (n_bins only when d >= n_bins); they are
\* the strings "0" .. "min(n_bins, d)-1", in increasing order of the
\* surviving bin values.
C15_AtMostNBinsLabels ==
    HReturned =>
        \A c \in 1..Len(df) :
            LET d == InitialCount(c)
                k == IF d < n_bins THEN d ELSE n_bins
            IN /\ { HTable[c][r] : r \in DOMAIN df[c] } = LabelsOf(k)
               /\ OrderedAsBins(c)

C15_Witness ==
    /\ HReturned
    /\ n_bins = 2
    /\ \E c \in 1..Len(df) : InitialCount(c) > n_bins
    /\ \E c \in 1..Len(df) : InitialCount(c) < n_bins

\* C16: a call with initial_bins <= n_bins (given, or defaulted to
\* 3 * n_bins) ends at once with the configuration error: no table is
\* returned, no label is computed and the input table is as it was.
C16_InvalidBinsFailFast ==
    [][(hpc = "call" /\ EffectiveBins <= n_bins) =>
           /\ h_out' = Some(Raise("hartemink_discretize", BinsError))
           /\ hpc' = "done"
           /\ bin_labels' = None /\ n_bins_per_var' = None
           /\ df' = df]_vars

C16_Witness ==
    /\ hpc = "done"
    /\ HRaised(BinsError)
    /\ initial_bins # None /\ initial_bins[1] = n_bins
    /\ Len(df) > 0
    /\ bin_labels = None

\* C17 as stated: a call with an initial_method other than 'quantile' and
\* 'uniform' and valid bin counts ends with the configuration error, whatever
\* the number of columns of the table, and never returns a table.
C17_UnknownMethodAlwaysFails ==
    (h_out # None /\ initial_method \notin {"quantile", "uniform"}
                  /\ EffectiveBins > n_bins) =>
        HRaised(MethodError)

\* ------------------------------------------------------- grid-search report
MetricNames == { metrics[k] : k \in 1..Len(metrics) }
ReportReturned ==
    /\ RunReturned
    /\ ret.out.op = "get_results_dataframe"
    /\ ret.out.kind = "return"
Report == ret.out.val[1]

\* C18 as stated: after run(), get_results_dataframe returns one row per
\* trial in trial order, with one column for each grid parameter, one column
\* for each metric of the search and an 'error' column that is null for a
\* successful trial and the message for a failed one, whatever the outcomes
\* of the trials.
C18_ReportHasEveryColumn ==
    ReportReturned =>
        /\ Len(Report.rows) = Len(results)
        /\ { Report.columns[k] : k \in 1..Len(Report.columns) }
               = KeyNames \cup MetricNames \cup {"error"}
        /\ \A k \in 1..Len(results) :
               /\ \A c \in KeyNames :
                      Report.rows[k][c] = Some(results[k].params[c])
               /\ Report.rows[k]["error"] = results[k].error

\* C19: no step of run() writes algorithm_class, param_grid, dataset,
\* golden_structure, metrics, fixed_params or objectives, and a query
\* (best_result, best_params, best_score, get_results_dataframe) writes
\* neither these nor results nor the fitted flag.
C19_InputsAreReadOnly ==
    [][/\ gsInputs' = gsInputs
       /\ (pc = "idle" /\ pc' = "idle") =>
              (results' = results /\ is_fitted' = is_fitted)]_vars

C19_Witness ==
    /\ RunReturned
    /\ ret.out.op = "best_score"
    /\ Len(param_grid) > 0
    /\ \E k \in 1..Len(results) : results[k].error # None
    /\ \E k \in 1..Len(results) : results[k].error = None

\* ----------------------------------------------------------------- Dataset
\* C20 as stated: every Dataset has len(feature_names) == n_features from its
\* construction onwards, whatever the data matrix and the feature_names
\* argument, and set_golden_structure changes golden_structure only.
C20_FeatureNamesMatchColumns ==
    /\ [](ds_call.op # "none" => Len(ds_feature_names) = n_features(ds_data))
    /\ [][<<ds_data, ds_name, ds_feature_names>>'
              = <<ds_data, ds_name, ds_feature_names>>]_vars

\* ------------------------------------------------------- hartemink merges
\* the pairs of label-adjacent bins of a column, and the exact value of the
\* total of line 126 for the tentative merge of one of them
AdjacentPairs(col) ==
    LET bins == SortedUnique(Values(col))
    IN { <<bins[k], bins[k + 1]>> : k \in 1..(Len(bins) - 1) }
TotalOf(labels, c, pair) ==
    TotalMI(labels, c, Merged(labels[c], pair[1], pair[2]), 1, FloatZero).exp
MergeStep == hpc = "merging" /\ bin_labels' # bin_labels

C22_MergingTerminates ==
    /\ (n_bins >= 1) => <>(hpc = "done")
    /\ [][MergeStep =>
             \E c \in 1..Len(df) :
                /\ Unique(bin_labels[c]) > n_bins
                /\ Unique(bin_labels'[c]) = Unique(bin_labels[c]) - 1
                /\ \A o \in 1..Len(df) :
                       o # c => bin_labels'[o] = bin_labels[o]]_vars
    /\ []((n_bins >= 1 /\ EffectiveBins > n_bins) =>
             merges <= Len(df) * (EffectiveBins - n_bins))

C22_Witness ==
    /\ HReturned
    /\ n_bins >= 1
    /\ merges >= 2
    /\ \E c \in 1..Len(df) : InitialCount(c) <= n_bins

\* the objectives field when no mapping (or an empty one) is passed (line 69)
DefaultObjectives == [m \in MetricNames |-> TRUE]
\* no direction was given for metric m: no mapping was passed, or the mapping
\* passed does not contain m
NoDirectionGiven(m) == objectives = DefaultObjectives \/ m \notin DOMAIN objectives

\* C23: best_result treats a metric without a direction as lower is better:
\* when no objectives mapping was passed, and when the mapping passed lacks
\* the metric, the trial returned has the minimum score of the metric over
\* the trials that have it.
C23_MissingDirectionIsLowerIsBetter ==
    (ret.out.op = "best_result" /\ is_fitted /\ NoDirectionGiven(ret.arg[1])) =>
        LET m == ret.arg[1]
        IN /\ ret.out.kind = "return"
           /\ ValidTrials(m) # {} =>
                 /\ ret.out.val # None
                 /\ \A n \in ValidTrials(m) :
                       ret.out.val[1].scores[m] <= results[n].scores[m]

\* C23 witness: a mapping was passed that lacks the metric asked for, two
\* trials differ in that metric, and best_result has answered.
C23_Witness ==
    /\ ret.out.op = "best_result"
    /\ is_fitted
    /\ objectives # DefaultObjectives
    /\ ret.arg[1] \notin DOMAIN objectives
    /\ \E a, b \in ValidTrials(ret.arg[1]) :
          results[a].scores[ret.arg[1]] < results[b].scores[ret.arg[1]]

\* ------------------------------------------------------ mutual information
MIReturned == mi_out # None /\ mi_out[1].kind = "return"
\* the double returned
MIValue == mi_out[1].val
\* the double the call with the arguments exchanged returns
MISwapped == _mutual_information(mi_y, mi_x)

\* C24 as stated: _mutual_information(x, y) = _mutual_information(y, x) >= 0
\* as doubles, and the value is 0.0 for empty sequences.
C24_MutualInformationSymmetricNonNegative ==
    mi_out # None =>
        /\ MIReturned
        /\ FloatEqual(MIValue, MISwapped) = {TRUE}
        /\ FloatGreater(FloatZero, MIValue) = {FALSE}
        /\ Len(mi_x) = 0 => MIValue = FloatZero

\* C24 (amended): the sums computed by _mutual_information(x, y) and by
\* _mutual_information(y, x) have the same exact value, which is not negative
\* (exp(n * mi) >= 1), and the value is 0.0 for empty sequences. Nothing is
\* stated of the order or of the sign of the rounded doubles.
C24_ExactValueSymmetricNonNegative ==
    mi_out # None =>
        /\ MIReturned
        /\ MIValue.exp = MISwapped.exp
        /\ ~RatGreater(One, MIValue.exp)
        /\ Len(mi_x) = 0 => MIValue = FloatZero

\* C24 witness: a positive mutual information of two sequences whose
\* contingency table is not square, so that the two calls add their terms in
\* different orders.
C24_Witness ==
    /\ MIReturned
    /\ RatGreater(MIValue.exp, One)
    /\ Unique(mi_x) # Unique(mi_y)
    /\ MIValue.calc # MISwapped.calc

\* ------------------------------------------------------------- grid search
\* C25: every result in results is all-or-nothing: either it has no error and
\* a score for exactly the configured metrics, or it has an error and no score.
C25_ResultsAreAllOrNothing ==
    \A n \in 1..Len(results) :
        \/ results[n].error = None /\ DOMAIN results[n].scores = MetricNames
        \/ results[n].error # None /\ DOMAIN results[n].scores = {}

\* C25 witness: with two metrics configured, one trial scored both and the
\* next one failed in its second metric after the first had been computed.
C25_Witness ==
    /\ Len(metrics) = 2
    /\ Len(results) >= 2
    /\ results[Len(results) - 1].error = None
    /\ LastResult.error # None
    /\ caught # None
    /\ caught[1].site = "compute"
    /\ caught[1].computed # {}

\* C26: run() replaces the results of an earlier run: whenever a run() has
\* completed, results holds one result per grid combination; and no step
\* resets the fitted flag once it is set.
C26_RerunReplacesResults ==
    /\ [](RunReturned => Len(results) = SeqProd(GridLens))
    /\ [][is_fitted => is_fitted']_vars

\* C26 witness: a second run() is under way on a grid of several
\* combinations: the flag of the first run is still set and the results have
\* been started afresh.
C26_Witness ==
    /\ is_fitted
    /\ pc = "trial"
    /\ SeqProd(GridLens) >= 2
    /\ Len(results) = 1

\* the first trial, in the order of the combinations, among those that have
\* metric m with the best score
FirstBestTrial(m) ==
    CHOOSE n \in ValidTrials(m) :
        \A j \in ValidTrials(m) :
            /\ IF LowerIsBetter(m)
               THEN results[n].scores[m] <= results[j].scores[m]
               ELSE results[n].scores[m] >= results[j].scores[m]
            /\ j < n => results[j].scores[m] # results[n].scores[m]

\* C27: when several trials share the best score, best_result returns the
\* first of them in the order of the combinations, and best_params returns
\* its params, whatever the direction of the metric.
C27_TiesGoToFirstCombination ==
    (is_fitted /\ ret.out.op \in {"best_result", "best_params"}
               /\ ValidTrials(ret.arg[1]) # {}) =>
        /\ ret.out.kind = "return"
        /\ ret.out.val # None
        /\ ret.out.op = "best_result" =>
              ret.out.val[1] = results[FirstBestTrial(ret.arg[1])]
        /\ ret.out.op = "best_params" =>
              ret.out.val[1] = results[FirstBestTrial(ret.arg[1])].params

\* C27 witness: best_params has answered for a metric where higher is better
\* and whose best score is shared by two trials, after a trial that is worse.
C27_Witness ==
    /\ is_fitted
    /\ ret.out.op = "best_params"
    /\ ~LowerIsBetter(ret.arg[1])
    /\ \E a, b, c \in ValidTrials(ret.arg[1]) :
          /\ a < b /\ b < c
          /\ results[a].scores[ret.arg[1]] < results[b].scores[ret.arg[1]]
          /\ results[b].scores[ret.arg[1]] = results[c].scores[ret.arg[1]]

\* ----------------------------------------------------------- count_tp_fp_fn
\* C28: every link is counted exactly once: TP + FP is the number of links of
\* the test graph, and TP + FN + the number of pairs linked in both graphs
\* with a different type or orientation is the number of links of the
\* reference graph.
C28_EveryLinkCountedOnce ==
    ct_out # None =>
        /\ Counts.tp + Counts.fp = NumLinks(test_cpdag)
        /\ Counts.tp + Counts.fn + Cardinality(MismatchedPairs) = NumLinks(ref_cpdag)

\* C28 witness: the graphs were compared; they agree on one pair and the
\* edge of the reference on another pair is an arc in the test graph.
C28_Witness ==
    /\ ct_out # None
    /\ Counts.tp = 1
    /\ \E p \in MismatchedPairs :
          Link(ref_cpdag, p) = "edge" /\ Link(test_cpdag, p) # "edge"

\* --------------------------------------------------------- Pareto selector
\* the results that are members of the returned front
InReturnedFront(r) == \E f \in 1..Len(ReturnedFront) : ReturnedFront[f] = r

\* C29: if some result has a score for every objective, pareto_front returns
\* a non-empty list, and every result that has every objective but is not in
\* the returned front is dominated by a member of the returned front.
C29_FrontCoversEveryValidResult ==
    pf_out.op = "pareto_front" =>
        /\ (\E k \in 1..Len(pf_results) : HasEveryObjective(pf_results[k]))
              => ReturnedFront # <<>>
        /\ \A k \in 1..Len(pf_results) :
              (HasEveryObjective(pf_results[k]) /\ ~InReturnedFront(pf_results[k]))
                 => \E f \in 1..Len(ReturnedFront) :
                        Dominates(ReturnedFront[f], pf_results[k])

\* C29 witness: a front of two results that do not dominate each other, and
\* a third result with every objective that was left out.
C29_Witness ==
    /\ pf_out.op = "pareto_front"
    /\ Len(pf_objectives) = 2
    /\ Len(ReturnedFront) = 2
    /\ \E k \in 1..Len(pf_results) :
          HasEveryObjective(pf_results[k]) /\ ~InReturnedFront(pf_results[k])

\* -------------------------------------------------------------- hartemink
\* C30: within each column the merges keep the order of the initial bins: if
\* the initial bin of sample s is at most that of sample t, then after any
\* number of merges the bin of s is at most that of t, and so is its integer
\* label in the table returned.
C30_MergesPreserveOrder ==
    bin_labels # None =>
        \A c \in 1..Len(df) : \A s, t \in DOMAIN df[c] :
            initial_bin_labels[c][s] <= initial_bin_labels[c][t] =>
                /\ bin_labels[c][s] <= bin_labels[c][t]
                /\ HReturned => LabelRank(HTable[c][s]) <= LabelRank(HTable[c][t])

\* C30 witness: a table was returned after a merge in a column of three
\* initial bins: two samples of different initial bins share a label and a
\* third sample has another label.
C30_Witness ==
    /\ HReturned
    /\ merges >= 1
    /\ \E c \in 1..Len(df) : \E s, t, u \in DOMAIN df[c] :
          /\ InitialCount(c) = 3
          /\ initial_bin_labels[c][s] < initial_bin_labels[c][t]
          /\ HTable[c][s] = HTable[c][t]
          /\ HTable[c][u] # HTable[c][s]


====
